---- MODULE Spec2Model ----
(***************************************************************************)
(* bitchat World View: the event pipeline of App (relay stream ->          *)
(* mapEventsToStore -> mapEventsToTimeline -> reverse), the chatroom list  *)
(* and filtered view derived from it, and the geohash decoder of           *)
(* LeafletMap.                                                             *)
(*                                                                         *)
(* A JavaScript string is a sequence of one-character strings, so that it  *)
(* can be indexed (geohash[i]) and compared (===).  `undefined` and `null` *)
(* are the two values Undefined and Null, which no string equals.          *)
(* Coordinates are fixed point: a number of degrees d is the integer       *)
(* d * Unit; halving is exact for as many bits as the bounds allow, as it  *)
(* is in IEEE doubles.                                                     *)
(***************************************************************************)
EXTENDS Integers, Sequences, FiniteSets, TLC

VARIABLES
    \* ---- App (src/src/App.tsx) and lib/applesauce ----
    store,            \* eventStore: the events it holds, by id
    subscribed,       \* useObservableMemo holds a subscription to the pipeline
    seen,             \* distinct() inside mapEventsToStore, per subscription
    timeline,         \* accumulator of mapEventsToTimeline's scan, per subscription
    events,           \* value last delivered to App (`events`), or NoEvents
    selectedChatroom, \* useState<string | null>
    currentView,      \* useState<'chat' | 'map'>
    chatrooms,        \* useMemo value of the last render
    filteredEvents,   \* useMemo value of the last render
    rendered,         \* App has rendered with the current state
    subscriptions,    \* how many times the pipeline has been subscribed to
    lastDelivery,     \* what became of the last record delivered: "none" |
                      \* "admitted" (new to the store) | "known" (held by the
                      \* store, new to this subscription) | "dropped"
    arrivals,         \* history: events in the order the store first admitted them
    relayRecord,      \* per relay connection: the record it sent (its id, and the
                      \* subscription it was sent for), or NoRecord
    relayOutcome,     \* per relay connection: "none" | "pending" (received, its
                      \* handler has not run) | "admitted" | "known" | "dropped" |
                      \* "discarded" (handler ran after the unsubscription)
    mapExit,          \* history: how the last step left the map view, if it did,
                      \* and whether a chatroom was selected then (NoExit otherwise)
    \* ---- decodeGeohash (LeafletMap), one run ----
    geohash,          \* the argument
    i,                \* outer loop index (0-based)
    j,                \* inner loop index, 4 down to 0
    lat, lng, latErr, lngErr, isEven,
    pc,               \* "idle" | "outer" | "inner" | "done"
    result            \* return value once pc = "done"

appVars == <<store, subscribed, seen, timeline, events, selectedChatroom, currentView,
             chatrooms, filteredEvents, rendered, subscriptions, lastDelivery, arrivals,
             relayRecord, relayOutcome, mapExit>>
relayVars == <<relayRecord, relayOutcome>>
decVars == <<geohash, i, j, lat, lng, latErr, lngErr, isEven, pc, result>>
vars == <<store, subscribed, seen, timeline, events, selectedChatroom, currentView,
          chatrooms, filteredEvents, rendered, subscriptions, lastDelivery, arrivals,
          relayRecord, relayOutcome, mapExit,
          geohash, i, j, lat, lng, latErr, lngErr, isEven, pc, result>>

----------------------------------------------------------------------------
(* Values *)

Undefined == <<"undefined">>
Null == <<"null">>

\* `undefined` where an array of events is expected
NoEvents == <<[undefined |-> TRUE]>>

\* fixed-point scale of a degree
Unit == 2^16

\* const base32 = "0123456789bcdefghjkmnpqrstuvwxyz"
base32 ==
    << "0","1","2","3","4","5","6","7","8","9","b","c","d","e","f","g",
       "h","j","k","m","n","p","q","r","s","t","u","v","w","x","y","z" >>

\* characters outside the alphabet that inputs are drawn from
BadChars == {"a", "S", "i"}

Chars == {base32[k] : k \in 1..Len(base32)} \cup BadChars

\* longest geohash handed to one run of the decoder
MaxGeoLen == 2

RECURSIVE StringsUpTo(_, _)
StringsUpTo(cs, n) ==
    IF n = 0 THEN {<<>>}
    ELSE LET shorter == StringsUpTo(cs, n - 1)
         IN  shorter \cup {Append(s, c) : s \in {t \in shorter : Len(t) = n - 1}, c \in cs}

GeoStrings == StringsUpTo(Chars, MaxGeoLen)

----------------------------------------------------------------------------
(* decodeGeohash *)

\* a lookup that folds case before searching (not the program's)
indexOfFoldCase(str, c) ==
    LET lc == IF c = "S" THEN "s" ELSE c
    IN  IF \E k \in 1..Len(str) : str[k] = lc
        THEN (CHOOSE k \in 1..Len(str) : str[k] = lc /\ \A m \in 1..(k - 1) : str[m] # lc) - 1
        ELSE -1

\* String.prototype.indexOf for a one-character needle: first 0-based index, or -1
indexOf(str, c) ==
    IF \E k \in 1..Len(str) : str[k] = c
    THEN (CHOOSE k \in 1..Len(str) : str[k] = c /\ \A m \in 1..(k - 1) : str[m] # c) - 1
    ELSE -1

\* cd & (1 << j), as a truth value
BitSet(cd, jj) == (cd \div (2^jj)) % 2 = 1

\* the running values of one decode
DecState == [lat : Int, lng : Int, latErr : Int, lngErr : Int, isEven : BOOLEAN]

\* locals that start at the south-west corner of the globe (not the program's)
DecStartCorner ==
    [lat |-> -90 * Unit, lng |-> -180 * Unit, latErr |-> 90 * Unit, lngErr |-> 180 * Unit, isEven |-> TRUE]

\* let lat = 0; let lng = 0; let latErr = 90; let lngErr = 180; let isEven = true
DecStart == [lat |-> 0, lng |-> 0, latErr |-> 90 * Unit, lngErr |-> 180 * Unit, isEven |-> TRUE]

\* a loop body that moves the midpoint before halving the error (not the program's)
BitStepAddFirst(st, cd, jj) ==
    IF st.isEven
    THEN [st EXCEPT !.lngErr = st.lngErr \div 2,
                    !.lng = IF BitSet(cd, jj) THEN st.lng + st.lngErr ELSE st.lng - st.lngErr,
                    !.isEven = FALSE]
    ELSE [st EXCEPT !.latErr = st.latErr \div 2,
                    !.lat = IF BitSet(cd, jj) THEN st.lat + st.latErr ELSE st.lat - st.latErr,
                    !.isEven = TRUE]

\* the body of `for (let j = 4; j >= 0; j--)` for one j
BitStep(st, cd, jj) ==
    IF st.isEven
    THEN LET e == st.lngErr \div 2
         IN  [st EXCEPT !.lngErr = e,
                        !.lng = IF BitSet(cd, jj) THEN st.lng + e ELSE st.lng - e,
                        !.isEven = FALSE]
    ELSE LET e == st.latErr \div 2
         IN  [st EXCEPT !.latErr = e,
                        !.lat = IF BitSet(cd, jj) THEN st.lat + e ELSE st.lat - e,
                        !.isEven = TRUE]

\* return null
NullResult == [null |-> TRUE]

\* no return value yet
NoResult == [pending |-> TRUE]

\* return { lat, lng }
Coords(la, ln) == [lat |-> la, lng |-> ln]

cur == [lat |-> lat, lng |-> lng, latErr |-> latErr, lngErr |-> lngErr, isEven |-> isEven]

\* the call: the locals are initialised
DecCall ==
    /\ pc = "idle"
    /\ pc' = "outer"
    /\ i' = 0
    /\ lat' = DecStart.lat
    /\ lng' = DecStart.lng
    /\ latErr' = DecStart.latErr
    /\ lngErr' = DecStart.lngErr
    /\ isEven' = DecStart.isEven
    /\ UNCHANGED <<geohash, j, result>>
    /\ UNCHANGED appVars

\* one pass of the outer loop head: c = geohash[i]; cd = base32.indexOf(c);
\* if (cd === -1) return null
DecChar ==
    /\ pc = "outer"
    /\ i < Len(geohash)
    /\ LET cd == indexOf(base32, geohash[i + 1])
       IN  IF cd = -1
           THEN /\ result' = NullResult
                /\ pc' = "done"
                /\ j' = j
           ELSE /\ j' = 4
                /\ pc' = "inner"
                /\ result' = result
    /\ UNCHANGED <<geohash, i, lat, lng, latErr, lngErr, isEven>>
    /\ UNCHANGED appVars

\* one pass of the inner loop; after j = 0 the outer loop advances
DecBit ==
    /\ pc = "inner"
    /\ j >= 0
    /\ LET st == BitStep(cur, indexOf(base32, geohash[i + 1]), j)
       IN  /\ lat' = st.lat
           /\ lng' = st.lng
           /\ latErr' = st.latErr
           /\ lngErr' = st.lngErr
           /\ isEven' = st.isEven
    /\ IF j = 0
       THEN /\ i' = i + 1
            /\ pc' = "outer"
            /\ j' = j
       ELSE /\ j' = j - 1
            /\ UNCHANGED <<i, pc>>
    /\ UNCHANGED <<geohash, result>>
    /\ UNCHANGED appVars

\* the loop is over: return { lat, lng }
DecReturn ==
    /\ pc = "outer"
    /\ i >= Len(geohash)
    /\ result' = Coords(lat, lng)
    /\ pc' = "done"
    /\ UNCHANGED <<geohash, i, j, lat, lng, latErr, lngErr, isEven>>
    /\ UNCHANGED appVars

\* decodeGeohash as a function of its argument (what mapPoints calls)
RECURSIVE DecodeBits(_, _, _)
DecodeBits(st, cd, jj) ==
    IF jj < 0 THEN st ELSE DecodeBits(BitStep(st, cd, jj), cd, jj - 1)

RECURSIVE DecodeFrom(_, _, _)
DecodeFrom(st, str, k) ==
    IF k > Len(str) THEN Coords(st.lat, st.lng)
    ELSE LET cd == indexOf(base32, str[k])
         IN  IF cd = -1 THEN NullResult
             ELSE DecodeFrom(DecodeBits(st, cd, 4), str, k + 1)

decodeGeohash(str) == DecodeFrom(DecStart, str, 1)

----------------------------------------------------------------------------
(* Events and tags *)

\* number of distinct event ids the relays deliver
MaxIds == 3

\* subscriptions to the pipeline over the life of App (StrictMode mounts,
\* unmounts and mounts again)
MaxSubscriptions == 2

\* relay connections that are followed one by one (RELAYS lists five)
MaxRelays == 2

Relays == 1..MaxRelays

\* a relay connection that has sent nothing
\* no step has just left the map view
NoExit == [by |-> "none", hadSelection |-> FALSE]

NoRecord == [id |-> 0, sub |-> 0]

u4 == <<"u", "4">>
u5 == <<"u", "5">>

\* tag lists (string[][]) that events carry: [name, value, ...]
TagCatalogue ==
    << << <<"g", u4>> >>,                              \* one g tag
       << <<"g", <<"a">>>> >>,                          \* g value outside the alphabet
       << <<"n", <<"b">>>>, <<"g", u5>> >>,             \* nickname, then g
       << <<"g", u4>>, <<"g", u5>> >>,                  \* two g tags
       << >>,                                           \* no tags
       << <<"g", <<>>>> >>,                             \* g with the empty string
       << <<"g">>, <<"g", u5>> >> >>                    \* first g tag without a value

\* created_at values that events carry; arrival order is free, so events
\* arrive in increasing, decreasing and equal created_at
TimeCatalogue == <<2, 1, 2, 3, 1>>

\* an event's content is fixed by its id (the id is the hash of the content)
TagsOf(id) == TagCatalogue[((id - 1) % Len(TagCatalogue)) + 1]

TimeOf(id) == TimeCatalogue[((id - 1) % Len(TimeCatalogue)) + 1]

\* the records the relays deliver
NostrEvent(id) == [id |-> id, created_at |-> TimeOf(id), tags |-> TagsOf(id)]

\* JavaScript truthiness of a string | undefined | null
Truthy(v) == v # Undefined /\ v # Null /\ v # <<>>

\* ev?.tags?.find((t) => t?.[0] === tag)?.[1]
getTagValue(ev, tag) ==
    LET hits == {k \in 1..Len(ev.tags) : Len(ev.tags[k]) >= 1 /\ ev.tags[k][1] = tag}
    IN  IF hits = {} THEN Undefined
        ELSE LET t == ev.tags[CHOOSE k \in hits : \A m \in hits : k <= m]
             IN  IF Len(t) >= 2 THEN t[2] ELSE Undefined

Reverse(sq) == [k \in 1..Len(sq) |-> sq[Len(sq) + 1 - k]]

----------------------------------------------------------------------------
(* The pipeline of App: pool.subscription(...).pipe(onlyEvents(),          *)
(* mapEventsToStore(eventStore), mapEventsToTimeline(), map(reverse))      *)
(*                                                                         *)
(* The operators are applesauce-core's.  mapEventsToStore maps each event  *)
(* to eventStore.add(event), the instance the store holds for that id, and *)
(* drops instances it has already let through (distinct).                  *)
(* mapEventsToTimeline scans the events into an array kept newest-first by *)
(* created_at, which App reverses "so newest messages are at the bottom"   *)
(* (README: "sorted, reactive timeline").  Operator state belongs to one   *)
(* subscription; the store is a module-level singleton.                    *)

\* eventStore.add(event): a record whose id is held is not added
StoreAdd(st, ev) ==
    IF \E e \in st : e.id = ev.id THEN st ELSE st \cup {ev}

\* what eventStore.add returns: the instance the store holds for that id
StoreInstance(st, ev) ==
    IF \E e \in st : e.id = ev.id THEN CHOOSE e \in st : e.id = ev.id ELSE ev

\* a distinct() that lets everything through (not the program's)
PassesAlways(seenIds, ev) == TRUE

\* distinct() of mapEventsToStore: an instance passes once per subscription
PassesDistinct(seenIds, ev) == ev.id \notin seenIds

\* positions that append in arrival order (not the program's)
InsertPositionsArrival(tl, ev) == {0}

\* mapEventsToTimeline keeps its accumulator newest-first by created_at
\* ("Reverse the order so newest messages are at the bottom"): the positions
\* p (events before it) at which ev may be inserted; among equal created_at
\* any position is allowed
InsertPositions(tl, ev) ==
    {p \in 0..Len(tl) :
        /\ \A k \in 1..p : tl[k].created_at >= ev.created_at
        /\ \A k \in (p + 1)..Len(tl) : tl[k].created_at <= ev.created_at}

\* a splice that overwrites the element at the position (not the program's)
InsertAtOverwrite(tl, ev, p) ==
    SubSeq(tl, 1, p) \o <<ev>> \o SubSeq(tl, p + 2, Len(tl))

\* the accumulator with the event spliced in after position p
InsertAt(tl, ev, p) == SubSeq(tl, 1, p) \o <<ev>> \o SubSeq(tl, p + 1, Len(tl))

\* map((t) => [...t].reverse())
ReversedCopy(t) == Reverse(t)

\* t.reverse() on the accumulator itself (not the program's)
ReversedInPlace(t) == Reverse(t)

\* [...t] copies before reversing: the accumulator of the scan stays as it is
AfterSpread(t) == t

----------------------------------------------------------------------------
(* The derived views of App *)

\* `#${geohash}`
RoomName(g) == <<"#">> \o g

\* roomMap after the forEach over the first n events: the rooms in the order
\* their geohash was first set
RECURSIVE RoomMap(_, _)
RoomMap(evs, n) ==
    IF n = 0 THEN <<>>
    ELSE LET rm == RoomMap(evs, n - 1)
             g == getTagValue(evs[n], "g")
         IN  IF ~Truthy(g) THEN rm
             ELSE LET rm1 == IF \E k \in 1..Len(rm) : rm[k].geohash = g
                             THEN rm
                             ELSE Append(rm, [geohash |-> g, name |-> RoomName(g), messageCount |-> 0])
                  IN  [k \in 1..Len(rm1) |->
                         IF rm1[k].geohash = g
                         THEN [rm1[k] EXCEPT !.messageCount = @ + 1]
                         ELSE rm1[k]]

\* a comparison that orders by ascending count (not the program's)
CompareAscending(a, b) == a.messageCount - b.messageCount

\* (a, b) => b.messageCount - a.messageCount
Compare(a, b) == b.messageCount - a.messageCount

\* Array.prototype.sort, which is stable: r goes after every element that
\* does not compare greater than it
RECURSIVE SortStable(_)
SortStable(sq) ==
    IF Len(sq) = 0 THEN <<>>
    ELSE LET front == SortStable(SubSeq(sq, 1, Len(sq) - 1))
             r == sq[Len(sq)]
             p == Cardinality({k \in 1..Len(front) : Compare(front[k], r) <= 0})
         IN  InsertAt(front, r, p)

\* useMemo(() => { ... }, [events])
chatroomsMemo(evs) ==
    IF evs = NoEvents THEN <<>>
    ELSE SortStable(RoomMap(evs, Len(evs)))

\* a filter that is applied whatever the selection (not the program's)
filteredEventsAlways(evs, sel) ==
    IF evs = NoEvents THEN evs
    ELSE SelectSeq(evs, LAMBDA e : getTagValue(e, "g") = sel)

\* useMemo(() => { ... }, [events, selectedChatroom])
filteredEventsMemo(evs, sel) ==
    IF evs = NoEvents \/ ~Truthy(sel) THEN evs
    ELSE SelectSeq(evs, LAMBDA e : getTagValue(e, "g") = sel)

\* a mapPoints that places undecodable rooms at the origin (not the program's)
mapPointsKeepAll(rooms) ==
    [k \in 1..Len(rooms) |->
        LET coords == decodeGeohash(rooms[k].geohash)
        IN  [geohash |-> rooms[k].geohash, messageCount |-> rooms[k].messageCount,
             lat |-> IF coords = NullResult THEN 0 ELSE coords.lat,
             lng |-> IF coords = NullResult THEN 0 ELSE coords.lng]]

\* LeafletMap: chatrooms.map(decode or null).filter(point !== null)
mapPoints(rooms) ==
    LET ok == SelectSeq(rooms, LAMBDA r : decodeGeohash(r.geohash) # NullResult)
    IN  [k \in 1..Len(ok) |->
            LET coords == decodeGeohash(ok[k].geohash)
            IN  [geohash |-> ok[k].geohash, messageCount |-> ok[k].messageCount,
                 lat |-> coords.lat, lng |-> coords.lng]]

\* the render that follows every state change recomputes both memos
Render ==
    /\ chatrooms' = chatroomsMemo(events')
    /\ filteredEvents' = filteredEventsMemo(events', selectedChatroom')
    /\ rendered' = TRUE

\* the effect of useObservableMemo subscribes to the pipeline: the operators'
\* state (distinct's set, scan's accumulator) is created per subscription
Subscribe ==
    /\ ~subscribed
    /\ subscriptions < MaxSubscriptions
    /\ subscriptions' = subscriptions + 1
    /\ subscribed' = TRUE
    /\ seen' = {}
    /\ timeline' = <<>>
    /\ UNCHANGED <<store, events, selectedChatroom, currentView, lastDelivery, arrivals>>
    /\ Render
    /\ UNCHANGED relayVars
    /\ UNCHANGED decVars
    /\ mapExit' = NoExit

\* the effect's cleanup unsubscribes; the store is a module-level singleton
\* and keeps its events
Unsubscribe ==
    /\ subscribed
    /\ subscribed' = FALSE
    /\ UNCHANGED <<store, seen, timeline, events, selectedChatroom, currentView, subscriptions, lastDelivery, arrivals>>
    /\ Render
    /\ UNCHANGED relayVars
    /\ UNCHANGED decVars
    /\ mapExit' = NoExit

\* a subscriber that is never closed (not the program's)
SubscriberNeverCloses(sub) == TRUE

\* a notification reaches the subscriber only while the subscription is open
SubscriberOpen(sub) == sub

\* the handler of one record: it runs through the whole pipeline, to completion
Pipeline(id) ==
    /\ SubscriberOpen(subscribed)
    /\ LET ev == NostrEvent(id)
           inst == StoreInstance(store, ev)
       IN  /\ store' = StoreAdd(store, ev)
           /\ arrivals' = IF store' # store THEN Append(arrivals, ev) ELSE arrivals
           /\ lastDelivery' = IF ~PassesDistinct(seen, inst) THEN "dropped"
                               ELSE IF store' # store THEN "admitted" ELSE "known"
           /\ IF PassesDistinct(seen, inst)
              THEN /\ seen' = seen \cup {inst.id}
                   /\ \E p \in InsertPositions(timeline, inst) :
                          LET t == InsertAt(timeline, inst, p)
                          IN  /\ events' = ReversedCopy(t)
                              /\ timeline' = AfterSpread(t)
              ELSE UNCHANGED <<seen, timeline, events>>
    /\ UNCHANGED <<subscribed, selectedChatroom, currentView, subscriptions>>
    /\ Render
    /\ UNCHANGED decVars
    /\ mapExit' = NoExit

\* a relay delivers a record
Deliver(id) ==
    /\ Pipeline(id)
    /\ UNCHANGED relayVars

\* a record arrives on relay connection r for the current subscription; its
\* handler is queued behind whatever runs now
Receive(r, id) ==
    /\ subscribed
    /\ relayOutcome[r] = "none"
    /\ relayRecord' = [relayRecord EXCEPT ![r] = [id |-> id, sub |-> subscriptions]]
    /\ relayOutcome' = [relayOutcome EXCEPT ![r] = "pending"]
    /\ UNCHANGED <<store, subscribed, seen, timeline, events, selectedChatroom, currentView,
                   chatrooms, filteredEvents, rendered, subscriptions, lastDelivery, arrivals>>
    /\ UNCHANGED decVars
    /\ mapExit' = NoExit

\* the queued handler of relay connection r runs while the subscription the
\* record was sent for is open
Handle(r) ==
    /\ relayOutcome[r] = "pending"
    /\ relayRecord[r].sub = subscriptions
    /\ Pipeline(relayRecord[r].id)
    /\ relayOutcome' = [relayOutcome EXCEPT ![r] = lastDelivery']
    /\ UNCHANGED relayRecord

\* the queued handler of relay connection r runs after the subscription the
\* record was sent for has been closed: nothing is notified
HandleClosed(r) ==
    /\ relayOutcome[r] = "pending"
    /\ ~SubscriberOpen(subscribed) \/ relayRecord[r].sub # subscriptions
    /\ relayOutcome' = [relayOutcome EXCEPT ![r] = "discarded"]
    /\ UNCHANGED relayRecord
    /\ UNCHANGED <<store, subscribed, seen, timeline, events, selectedChatroom, currentView,
                   chatrooms, filteredEvents, rendered, subscriptions, lastDelivery, arrivals>>
    /\ UNCHANGED decVars
    /\ mapExit' = NoExit

\* sidebar: onClick of a chatroom button toggles the selection
ClickRoom(k) ==
    /\ currentView = "chat"
    /\ k \in 1..Len(chatrooms)
    /\ selectedChatroom' =
          IF selectedChatroom = chatrooms[k].geohash THEN Null ELSE chatrooms[k].geohash
    /\ UNCHANGED <<store, subscribed, seen, timeline, events, currentView, subscriptions, lastDelivery, arrivals>>
    /\ Render
    /\ UNCHANGED relayVars
    /\ UNCHANGED decVars
    /\ mapExit' = NoExit

\* sidebar: "Show All Messages", rendered only while a selection is set
ShowAll ==
    /\ currentView = "chat"
    /\ Truthy(selectedChatroom)
    /\ selectedChatroom' = Null
    /\ UNCHANGED <<store, subscribed, seen, timeline, events, currentView, subscriptions, lastDelivery, arrivals>>
    /\ Render
    /\ UNCHANGED relayVars
    /\ UNCHANGED decVars
    /\ mapExit' = NoExit

\* the map buttons: setCurrentView('map')
OpenMap ==
    /\ currentView = "chat"
    /\ currentView' = "map"
    /\ UNCHANGED <<store, subscribed, seen, timeline, events, selectedChatroom, subscriptions, lastDelivery, arrivals>>
    /\ Render
    /\ UNCHANGED relayVars
    /\ UNCHANGED decVars
    /\ mapExit' = NoExit

\* MapView: onChatroomSelect from a marker of mapPoints
MapSelect(k) ==
    /\ currentView = "map"
    /\ k \in 1..Len(mapPoints(chatrooms))
    /\ selectedChatroom' = mapPoints(chatrooms)[k].geohash
    /\ currentView' = "chat"
    /\ UNCHANGED <<store, subscribed, seen, timeline, events, subscriptions, lastDelivery, arrivals>>
    /\ Render
    /\ UNCHANGED relayVars
    /\ UNCHANGED decVars
    /\ mapExit' = [by |-> "select", hadSelection |-> selectedChatroom # Null]

\* a Back that leaves the selection as it found it (not the program's)
KeepSelection(sel) == sel

\* setSelectedChatroom(null): "Clear any chatroom filter when going back"
ClearSelection(sel) == Null

\* MapView: onBackToChat
Back ==
    /\ currentView = "map"
    /\ selectedChatroom' = ClearSelection(selectedChatroom)
    /\ currentView' = "chat"
    /\ UNCHANGED <<store, subscribed, seen, timeline, events, subscriptions, lastDelivery, arrivals>>
    /\ Render
    /\ UNCHANGED relayVars
    /\ UNCHANGED decVars
    /\ mapExit' = [by |-> "back", hadSelection |-> selectedChatroom # Null]

AppIdle ==
    /\ store = {}
    /\ subscribed = FALSE
    /\ seen = {}
    /\ timeline = <<>>
    /\ events = NoEvents
    /\ selectedChatroom = Null
    /\ currentView = "chat"
    /\ chatrooms = <<>>
    /\ filteredEvents = NoEvents
    /\ rendered = TRUE
    /\ subscriptions = 0
    /\ lastDelivery = "none"
    /\ arrivals = <<>>
    /\ relayRecord = [r \in Relays |-> NoRecord]
    /\ relayOutcome = [r \in Relays |-> "none"]
    /\ mapExit = NoExit

DecIdle ==
    /\ geohash = <<>>
    /\ i = 0
    /\ j = 4
    /\ lat = 0
    /\ lng = 0
    /\ latErr = 90 * Unit
    /\ lngErr = 180 * Unit
    /\ isEven = TRUE
    /\ pc = "idle"
    /\ result = NoResult

\* App is mounted and has rendered once; nothing is subscribed yet
Init == AppIdle /\ DecIdle

Next ==
    \/ Subscribe
    \/ Unsubscribe
    \/ \E id \in 1..MaxIds : Deliver(id)
    \/ \E k \in 1..MaxIds : ClickRoom(k)
    \/ ShowAll
    \/ OpenMap
    \/ \E k \in 1..MaxIds : MapSelect(k)
    \/ Back

Spec == Init /\ [][Next]_vars

\* the relay connections seen one by one: every record is received by a
\* connection before its handler runs
RaceNext ==
    \/ Subscribe
    \/ Unsubscribe
    \/ \E r \in Relays, id \in 1..MaxIds : Receive(r, id)
    \/ \E r \in Relays : Handle(r)
    \/ \E r \in Relays : HandleClosed(r)

RaceSpec == Init /\ [][RaceNext]_vars

----------------------------------------------------------------------------
(* The derived views as functions of their inputs: any timeline, any       *)
(* selection, one render                                                   *)

\* longest timeline handed to the memos
MaxTimelineLen == 3

\* timelines of n events; the k-th has id k and any of the catalogue's tags
TimelinesOfLen(n) ==
    {[k \in 1..n |-> [id |-> k, created_at |-> k, tags |-> TagCatalogue[c[k]]]] :
        c \in [1..n -> 1..Len(TagCatalogue)]}

Timelines == UNION {TimelinesOfLen(n) : n \in 0..MaxTimelineLen}

\* values of selectedChatroom: null and strings of length 0 or more
Selections == {Null, <<>>, u4, u5, <<"a">>}

FnInit ==
    /\ events \in Timelines \cup {NoEvents}
    /\ selectedChatroom \in Selections
    /\ rendered = FALSE
    /\ chatrooms = <<>>
    /\ filteredEvents = NoEvents
    /\ store = {}
    /\ subscribed = FALSE
    /\ seen = {}
    /\ timeline = <<>>
    /\ currentView = "chat"
    /\ subscriptions = 0
    /\ lastDelivery = "none"
    /\ arrivals = <<>>
    /\ relayRecord = [r \in Relays |-> NoRecord]
    /\ relayOutcome = [r \in Relays |-> "none"]
    /\ mapExit = NoExit
    /\ DecIdle

\* App renders: both memos are computed from events and selectedChatroom
FnRender ==
    /\ ~rendered
    /\ UNCHANGED <<store, subscribed, seen, timeline, events, selectedChatroom,
                   currentView, subscriptions, lastDelivery, arrivals>>
    /\ Render
    /\ UNCHANGED relayVars
    /\ UNCHANGED decVars
    /\ mapExit' = NoExit

FnNext == FnRender

FnSpec == FnInit /\ [][FnNext]_vars

\* one call of decodeGeohash on any bounded string
DecInit ==
    /\ geohash \in GeoStrings
    /\ i = 0
    /\ j = 4
    /\ lat = 0
    /\ lng = 0
    /\ latErr = 90 * Unit
    /\ lngErr = 180 * Unit
    /\ isEven = TRUE
    /\ pc = "idle"
    /\ result = NoResult
    /\ AppIdle

DecNext == DecCall \/ DecChar \/ DecBit \/ DecReturn

DecSpec == DecInit /\ [][DecNext]_vars

----------------------------------------------------------------------------
(* Properties of decodeGeohash, under DecSpec *)

\* the 32-symbol alphabet, as a set
Alphabet ==
    { "0","1","2","3","4","5","6","7","8","9","b","c","d","e","f","g",
      "h","j","k","m","n","p","q","r","s","t","u","v","w","x","y","z" }

HasBadChar(str) == \E k \in 1..Len(str) : str[k] \notin Alphabet

\* C7: a string with a character outside the alphabet, at any position,
\* decodes to null and never to a coordinate pair.
C7_InvalidCharYieldsNull ==
    (pc = "done" /\ HasBadChar(geohash)) => result = NullResult

\* an upper-case letter after a valid character has been rejected
C7_Witness ==
    /\ pc = "done"
    /\ geohash = <<"s", "S">>
    /\ result = NullResult

\* the 5-bit value of a symbol: its 0-based position in the alphabet
SymbolValue(c) == CHOOSE v \in 0..31 : base32[v + 1] = c

\* bit k (0-based, most significant first) of the string's 5-bit symbols
StreamBit(str, k) ==
    LET v == SymbolValue(str[(k \div 5) + 1])
    IN  (v \div (2^(4 - (k % 5)))) % 2

RECURSIVE RefAxis(_, _, _, _)
\* sum over the axis's bits k, k+2, ... of +-(width / 2^n), n counting that axis's bits
RefAxis(str, k, width, n) ==
    IF k >= 5 * Len(str) THEN 0
    ELSE (IF StreamBit(str, k) = 1 THEN 1 ELSE -1) * (width \div (2^n))
         + RefAxis(str, k + 2, width, n + 1)

\* the reference recurrence: even bits refine longitude, odd bits latitude
RefDecode(str) ==
    Coords(RefAxis(str, 1, 90 * Unit, 1), RefAxis(str, 0, 180 * Unit, 1))

\* C8: on strings over the alphabet the decoder equals the reference
\* recurrence (bits alternate lng, lat across character boundaries, halve
\* first, then add or subtract); decode("s") lies strictly inside
\* (0,90) x (0,180).
C8_MatchesReference ==
    (pc = "done" /\ ~HasBadChar(geohash)) =>
        /\ result = RefDecode(geohash)
        /\ geohash = <<"s">> =>
              /\ 0 < result.lat /\ result.lat < 90 * Unit
              /\ 0 < result.lng /\ result.lng < 180 * Unit

\* a two-character string, whose second character starts on a latitude bit
C8_Witness ==
    /\ pc = "done"
    /\ geohash = <<"u", "4">>
    /\ result = RefDecode(<<"u", "4">>)
    /\ result # Coords(0, 0)

\* C9: the empty string decodes to exactly (0, 0), not to null.
C9_EmptyIsOrigin ==
    (pc = "done" /\ geohash = <<>>) => result = Coords(0, 0)

\* the run on the empty string has returned
C9_Witness ==
    /\ pc = "done"
    /\ Len(geohash) = 0
    /\ result # NullResult
    /\ i = 0

----------------------------------------------------------------------------
(* Properties of the pipeline, under Spec *)

\* an array of events, with undefined read as no events
Shown(evs) == IF evs = NoEvents THEN <<>> ELSE evs

Occurrences(sq, id) == Cardinality({k \in 1..Len(sq) : sq[k].id = id})

IdsOf(sq) == {sq[k].id : k \in 1..Len(sq)}

\* C1: however often and by whichever relay an id is submitted, it occurs at
\* most once in the Event Store and at most once in the published timeline;
\* an id that went through the pipeline is stored exactly once and occurs
\* exactly once in the timeline.
C1_NoDuplicateIds ==
    /\ \A id \in 1..MaxIds :
          /\ Cardinality({e \in store : e.id = id}) <= 1
          /\ Occurrences(Shown(events), id) <= 1
          /\ Occurrences(timeline, id) <= 1
    /\ \A id \in seen :
          /\ Cardinality({e \in store : e.id = id}) = 1
          /\ Occurrences(timeline, id) = 1
    /\ lastDelivery # "none" =>
          \A id \in seen : Occurrences(Shown(events), id) = 1

\* the one event of the store has just been delivered again and was dropped
C1_Witness ==
    /\ lastDelivery = "dropped"
    /\ Cardinality(store) = 1
    /\ Len(Shown(events)) = 1
    /\ subscriptions = 1

\* C2 as stated: within the first subscription the published timeline, read
\* oldest-first, is the sequence of admitted events in arrival order.
C2_ArrivalOrder ==
    (subscriptions = 1 /\ events # NoEvents) => events = arrivals

NonDecreasing(sq) ==
    \A a, b \in 1..Len(sq) : a < b => sq[a].created_at <= sq[b].created_at

\* C2, amended: the published timeline, read oldest-first, holds every event
\* that came through the current subscription exactly once, ordered by
\* non-decreasing createdAt; createdAt, not arrival, decides the position.
C2_OrderedByCreatedAt ==
    /\ NonDecreasing(Shown(events))
    /\ NonDecreasing(Reverse(timeline))
    /\ IdsOf(timeline) = seen
    /\ Len(timeline) = Cardinality(seen)
    /\ (subscribed /\ lastDelivery # "none" /\ seen # {}) =>
          Shown(events) = Reverse(timeline)

\* three events were admitted, a newer one before an older one
C2_Witness ==
    /\ subscriptions = 1
    /\ Len(arrivals) = 3
    /\ arrivals[1].created_at > arrivals[2].created_at
    /\ Len(Shown(events)) = 3
    /\ events # arrivals

\* C3 as stated: the published timeline holds exactly the events of the
\* Event Store, each exactly once, whatever the interleaving of admissions,
\* subscriptions and unsubscriptions.
C3_TimelineIsStore ==
    /\ {Shown(events)[k] : k \in 1..Len(Shown(events))} = store
    /\ Len(Shown(events)) = Cardinality(store)

\* an event whose first g tag value is a string outside the alphabet
Undecodable(ev) ==
    /\ getTagValue(ev, "g") # Undefined
    /\ \E k \in 1..Len(getTagValue(ev, "g")) : getTagValue(ev, "g")[k] \notin Alphabet

CountG(evs, g) == Cardinality({k \in 1..Len(evs) : getTagValue(evs[k], "g") = g})

InSeq(sq, x) == \E k \in 1..Len(sq) : sq[k] = x

\* C10 as stated: an event whose g value fails to decode is a member of no
\* chatroom of the chatroom list, and is in the filter views as any other.
C10_NoChatroomMembership ==
    \A k \in 1..Len(Shown(events)) :
        Undecodable(Shown(events)[k]) =>
            /\ ~\E r \in 1..Len(chatrooms) :
                   chatrooms[r].geohash = getTagValue(Shown(events)[k], "g")
            /\ selectedChatroom = Null => InSeq(Shown(filteredEvents), Shown(events)[k])

\* C10, amended: an event of the timeline whose g value fails to decode gets
\* no map point, but its chatroom is in the chatroom list and counts it; the
\* filtered view returns it when nothing or its g value is selected.
C10_ExcludedFromMapOnly ==
    \A k \in 1..Len(Shown(events)) :
        LET ev == Shown(events)[k]
            g == getTagValue(ev, "g")
        IN  Undecodable(ev) =>
              /\ \E r \in 1..Len(chatrooms) :
                    /\ chatrooms[r].geohash = g
                    /\ chatrooms[r].messageCount = CountG(Shown(events), g)
              /\ ~\E p \in 1..Len(mapPoints(chatrooms)) : mapPoints(chatrooms)[p].geohash = g
              /\ (selectedChatroom = Null \/ selectedChatroom = g) =>
                    InSeq(Shown(filteredEvents), ev)

\* the undecodable room is selected in the sidebar and has no map point
C10_Witness ==
    /\ selectedChatroom = <<"a">>
    /\ Len(Shown(filteredEvents)) = 1
    /\ Len(chatrooms) = 2
    /\ Len(mapPoints(chatrooms)) = 1

----------------------------------------------------------------------------
(* Properties of the derived views, under FnSpec *)

\* the strings that are the first g tag value of some event
FirstGValues(evs) == {getTagValue(evs[k], "g") : k \in 1..Len(evs)} \ {Undefined}

\* C4 as stated: every string of length 0 or more that is the first g value
\* of an event has one entry, whose messageCount is the number of events
\* with that value; no entry is for a geocell of zero events or has count 0.
C4_CountsEveryGeocell ==
    rendered =>
        /\ \A g \in FirstGValues(Shown(events)) :
              /\ Cardinality({r \in 1..Len(chatrooms) : chatrooms[r].geohash = g}) = 1
              /\ \A r \in 1..Len(chatrooms) :
                    chatrooms[r].geohash = g =>
                        chatrooms[r].messageCount = CountG(Shown(events), g)
        /\ \A r \in 1..Len(chatrooms) :
              /\ chatrooms[r].messageCount > 0
              /\ chatrooms[r].geohash \in FirstGValues(Shown(events))

\* the positions of the timeline whose event has first g value s
Matching(evs, s) == {k \in 1..Len(evs) : getTagValue(evs[k], "g") = s}

\* the n-th smallest element of a set of positions
Nth(S, n) == CHOOSE k \in S : Cardinality({m \in S : m <= k}) = n

FirstSeen(evs, g) == CHOOSE k \in Matching(evs, g) : \A m \in Matching(evs, g) : k <= m

\* C6: the chatroom list is in descending messageCount, chatrooms of equal
\* count in the order their geocell was first met in the scan; events with g
\* tags u4, u4, u5 give [u4: 2, u5: 1].
C6_SortedStable ==
    rendered =>
        /\ \A a, b \in 1..Len(chatrooms) :
              a < b =>
                /\ chatrooms[a].messageCount >= chatrooms[b].messageCount
                /\ chatrooms[a].messageCount = chatrooms[b].messageCount =>
                      FirstSeen(Shown(events), chatrooms[a].geohash)
                          < FirstSeen(Shown(events), chatrooms[b].geohash)
        /\ (/\ Len(Shown(events)) = 3
            /\ getTagValue(events[1], "g") = u4
            /\ getTagValue(events[2], "g") = u4
            /\ getTagValue(events[3], "g") = u5) =>
              chatrooms = << [geohash |-> u4, name |-> <<"#", "u", "4">>, messageCount |-> 2],
                             [geohash |-> u5, name |-> <<"#", "u", "5">>, messageCount |-> 1] >>

\* a room met later overtakes two rooms of equal count met before it
C6_Witness ==
    /\ rendered
    /\ Len(Shown(events)) = 3
    /\ Len(chatrooms) = 2
    /\ chatrooms[1].messageCount = 2
    /\ FirstSeen(events, chatrooms[1].geohash) = 2
    /\ FirstSeen(events, chatrooms[2].geohash) = 1

----------------------------------------------------------------------------
(* Properties of concurrent relay connections, under RaceSpec *)

\* the handler of relay connection r has run through the pipeline
Settled(r) == relayOutcome[r] \in {"admitted", "known", "dropped"}

\* the settled connections that sent the record with this id
SettledWith(id) == {r \in Relays : relayRecord[r].id = id /\ Settled(r)}

\* C11: of the relay connections that deliver a record with the same id,
\* whatever the order in which their handlers run, exactly one is admitted
\* by the store and the others are not; of those of one subscription exactly
\* one is let through and the others are dropped; the id is never stored or
\* published twice.
C11_OneAdmissionPerId ==
    \A id \in 1..MaxIds :
        SettledWith(id) # {} =>
            /\ Cardinality({r \in SettledWith(id) : relayOutcome[r] = "admitted"}) = 1
            /\ \A n \in 1..MaxSubscriptions :
                  LET G == {r \in SettledWith(id) : relayRecord[r].sub = n}
                  IN  G # {} =>
                        /\ Cardinality({r \in G : relayOutcome[r] # "dropped"}) = 1
                        /\ Cardinality({r \in G : relayOutcome[r] = "dropped"}) = Cardinality(G) - 1
            /\ Cardinality({e \in store : e.id = id}) = 1
            /\ Cardinality({k \in 1..Len(timeline) : timeline[k].id = id}) <= 1
            /\ Cardinality({k \in 1..Len(events) : events[k].id = id}) <= 1

\* three connections hold the same record at once; the second one's handler
\* ran first and was admitted, the first one's ran next and was dropped
C11_Witness ==
    /\ relayRecord[1] = relayRecord[2]
    /\ relayOutcome[2] = "admitted"
    /\ relayOutcome[1] = "dropped"
    /\ Len(events) = 1

\* C15: while nothing is subscribed no timeline update reaches App, and a
\* record received before the unsubscription whose handler runs after it is
\* discarded without touching the store, the timeline or the derived views.
C15_NoDeliveryAfterUnsubscribe ==
    [][/\ ~subscribed =>
             /\ events' = events
             /\ chatrooms' = chatrooms
             /\ filteredEvents' = filteredEvents
       /\ \A r \in Relays :
             (relayOutcome[r] = "pending" /\ relayOutcome'[r] # "pending") =>
                 IF subscribed /\ relayRecord[r].sub = subscriptions
                 THEN relayOutcome'[r] \in {"admitted", "known", "dropped"}
                 ELSE /\ relayOutcome'[r] = "discarded"
                      /\ UNCHANGED <<store, seen, timeline, events, chatrooms, filteredEvents>>
      ]_vars

\* a record that was pending at the unsubscription has been discarded, after
\* earlier records were published
C15_Witness ==
    /\ ~subscribed
    /\ \E r \in Relays : relayOutcome[r] = "discarded" /\ relayRecord[r].id \notin seen
    /\ events # NoEvents

\* C12: delivering a record whose id the store already holds changes neither
\* the store nor the published timeline, the chatroom list or the filtered
\* view.
C12_DuplicateChangesNothing ==
    [][\A id \in 1..MaxIds :
          (Deliver(id) /\ \E e \in store : e.id = id)
              => UNCHANGED <<store, events, chatrooms, filteredEvents>>]_vars

\* C13: with no selection (selectedChatroom is null) the filtered view is the
\* event sequence itself: same events, same order, same length.
C13_NoSelectionIsIdentity ==
    (rendered /\ selectedChatroom = Null) => filteredEvents = events

C13_Witness ==
    /\ rendered
    /\ selectedChatroom = Null
    /\ events # NoEvents
    /\ Len(events) = MaxTimelineLen
    /\ \E k \in 1..Len(events) : getTagValue(events[k], "g") = u4
    /\ \E k \in 1..Len(events) : getTagValue(events[k], "g") = Undefined

IsPrefix(s, t) == Len(s) <= Len(t) /\ SubSeq(t, 1, Len(s)) = s

RemoveAt(s, p) == [k \in 1..(Len(s) - 1) |-> IF k < p THEN s[k] ELSE s[k + 1]]

\* C14, as stated: of two consecutively published timelines (oldest-first)
\* the earlier is a prefix of the later.
C14_AppendOnly ==
    [][(events # NoEvents /\ events' # events) => IsPrefix(events, events')]_vars

\* C14, amended: within one subscription an update adds exactly one event to
\* the published timeline and removes none; the events published before keep
\* their relative order, and the new event stands where its createdAt puts
\* it, so the index of an earlier event may grow by one.
C14_InsertOnly ==
    [][(timeline # <<>> /\ events' # events)
          => /\ Len(events') = Len(events) + 1
             /\ \E p \in 1..Len(events') :
                   /\ RemoveAt(events', p) = events
                   /\ events'[p] \notin {events[k] : k \in 1..Len(events)}
             /\ NonDecreasing(events')]_vars

\* an older event was published in front of the events published before it
C14_Witness ==
    /\ Len(arrivals) = 3
    /\ Len(timeline) = 3
    /\ events # NoEvents
    /\ arrivals[3] = events[1]
    /\ arrivals[1] = events[2]
    /\ arrivals[2] = events[3]

\* C16: every event whose admission to the store succeeded is in every later
\* published timeline, in the filtered view read without a selection, and its
\* chatroom is in the chatroom list.
C16_AdmittedIsPublished ==
    \A e \in store :
        /\ InSeq(Shown(events), e)
        /\ selectedChatroom = Null => InSeq(Shown(filteredEvents), e)
        /\ Truthy(getTagValue(e, "g"))
              => \E k \in 1..Len(chatrooms) : chatrooms[k].geohash = getTagValue(e, "g")

\* an event that carries no tag named g
HasNoG(ev) == \A k \in 1..Len(ev.tags) : Len(ev.tags[k]) = 0 \/ ev.tags[k][1] # "g"

GTags(ev) == {k \in 1..Len(ev.tags) : Len(ev.tags[k]) >= 1 /\ ev.tags[k][1] = "g"}

\* the value of the first tag named g in tag order (undefined when it has none)
FirstG(ev) ==
    LET k == CHOOSE m \in GTags(ev) : \A n \in GTags(ev) : m <= n
    IN  IF Len(ev.tags[k]) >= 2 THEN ev.tags[k][2] ELSE Undefined

NewestFirst(sq) ==
    \A a, b \in 1..Len(sq) : a < b => sq[a].created_at >= sq[b].created_at

\* C19: on every timeline update the displayed sequence is a new sequence
\* that is exactly the published one in reverse order, and the reversal
\* leaves the published sequence as the aggregator made it (newest first,
\* the sequence before the update plus the one new event).
C19_DisplayIsReverse ==
    [][/\ timeline' # <<>> =>
             /\ Len(events') = Len(timeline')
             /\ \A k \in 1..Len(timeline') : events'[k] = timeline'[Len(timeline') + 1 - k]
       /\ (timeline' # timeline /\ timeline' # <<>>) =>
             /\ NewestFirst(timeline')
             /\ \E p \in 1..Len(timeline') : RemoveAt(timeline', p) = timeline]_vars

\* three events of different createdAt are published and displayed
C19_Witness ==
    /\ Len(timeline) = 3
    /\ timeline[1].created_at > timeline[3].created_at
    /\ events # NoEvents
    /\ events[1] = timeline[3]
    /\ events[3] = timeline[1]
    /\ events # timeline

\* C20: a step that leaves the map view is one of two: choosing a chatroom on
\* the map sets the selection to exactly the geohash of that map point, and
\* Back sets the selection to none, whatever was selected before, so that
\* the filtered view is the full event sequence; both end in the chat view.
C20_LeavingMapResetsFilter ==
    [][/\ (currentView = "map" /\ currentView' = "chat") =>
             mapExit'.by \in {"back", "select"} /\ mapExit'.hadSelection = (selectedChatroom # Null)
       /\ mapExit'.by = "back" =>
             /\ currentView = "map" /\ currentView' = "chat"
             /\ selectedChatroom' = Null
             /\ filteredEvents' = events'
       /\ mapExit'.by = "select" =>
             /\ currentView = "map" /\ currentView' = "chat"
             /\ \E k \in 1..Len(mapPoints(chatrooms)) :
                   selectedChatroom' = mapPoints(chatrooms)[k].geohash
             /\ \E k \in 1..Len(chatrooms) : chatrooms[k].geohash = selectedChatroom'
             /\ filteredEvents' = SelectSeq(events',
                                      LAMBDA e : getTagValue(e, "g") = selectedChatroom')]_vars

\* Back has just left the map, which was entered with a chatroom selected
\* and a timeline that holds events of several chatrooms
C20_Witness ==
    /\ mapExit.by = "back"
    /\ mapExit.hadSelection
    /\ currentView = "chat"
    /\ selectedChatroom = Null
    /\ events # NoEvents
    /\ filteredEvents = events
    /\ Len(chatrooms) >= 2

-----------------------------------------------------------------------------
(* The decoder's running cell, under DecSpec *)

Abs(x) == IF x < 0 THEN -x ELSE x

-----------------------------------------------------------------------------
(* Selection and derived views, under Spec *)

RECURSIVE SumCounts(_, _)
SumCounts(rooms, n) == IF n = 0 THEN 0 ELSE SumCounts(rooms, n - 1) + rooms[n].messageCount

====
